---------------------------- MODULE Spec2Model ----------------------------
(***************************************************************************)
(* A model of sirius' measures chart core (gaku-sei/sirius):               *)
(*   - binary_search_by_with_index and find_closest_measure                *)
(*     (src/src/binary_search.rs, src/src/measures/canvas.rs)              *)
(*   - get_max_measure_value and the polyline of render_measures           *)
(*   - the fold of query rows into MeasuresData (create_measures_memo)     *)
(*   - time_to_x / x_to_time                                               *)
(*   - compute_lod, compute_segment_duration, compute_segment_index       *)
(*   - get_color                                                           *)
(*   - MeasuresCanvas::render and its passes (scales, measures, dots,     *)
(*     stats)                                                              *)
(*   - the mousedown, mouseup, mousemove and wheel handlers                *)
(*     (src/src/measures/components.rs)                                    *)
(*                                                                         *)
(* Indices are 0-based as in the source; a Rust slice s is the TLA+        *)
(* sequence whose element s[i + 1] is the slice's element i.               *)
(* A sample (i64, f64) is the pair <<time, value>>.                        *)
(* Option<T> is a sequence: None is <<>>, Some(v) is <<v>>.                *)
(***************************************************************************)
EXTENDS Integers, Sequences, FiniteSets, TLC

VARIABLES
    pc,                \* position of the operation being run
    overflow_checks,   \* build profile: are integer overflow checks compiled in
    measures,          \* the slice / MeasureSet.measures an operation works on
    mouse_x_time,      \* find_closest_measure: the query time
    size,              \* binary_search_by_with_index: local `size`
    base,              \* binary_search_by_with_index: local `base`
    steps,             \* number of evaluations of the predicate f so far
    res,               \* binary_search_by_with_index: <<"Ok", i>> or <<"Err", i>>
    found,             \* find_closest_measure: the returned Option<(i64, f64)>
    begin_ns,          \* the visible window's begin, in nanoseconds
    end_ns,            \* the visible window's end, in nanoseconds
    set_max,           \* MeasureSet.max of the set `measures` belongs to
    displayed_values,  \* get_max_measure_value: local `displayed_values`
    max_measure,       \* render_measures: local `max_measure`, once computed
    polyline,          \* render_measures: indices of the samples given to line_to
    rows,              \* create_measures_memo: the Vec<Measure> being folded
    row_i,             \* create_measures_memo: number of rows consumed so far
    measures_data,     \* create_measures_memo: the map target -> MeasureSet
    iter_order,        \* the order in which the HashMap enumerates its targets
    x,                 \* x_to_time: the pixel abscissa
    width,             \* the canvas width in pixels
    time_out,          \* x_to_time's result
    x_back,            \* time_to_x of that result
    duration_a,        \* compute_lod: a visible duration
    duration_b,        \* compute_lod: a second, longer visible duration
    lod_a,             \* compute_lod(duration_a), once computed
    lod_b,             \* compute_lod(duration_b), once computed
    seg_begin,         \* compute_segment_index: `begin`, offset from the epoch
    seg_end,           \* compute_segment_index: `end`, offset from the epoch
    seg_lod,           \* compute_segment_index: `lod`
    segments,          \* compute_segment_index's result, once computed
    color_index,       \* get_color: the series indices enumerated
    color,             \* get_color's result for each of them
    ctx,               \* the calls made on the CanvasRenderingContext2d, in order
    ctx_scale,         \* the context's current transform (its scale factor)
    ctx_stack,         \* the context's stack of saved drawing states
    begin,             \* render: `begin`, offset from the epoch
    end,               \* render: `end`, offset from the epoch
    height,            \* render: `height`
    dpr,               \* render: `dpr`
    force_debug,       \* MeasuresCanvas.force_debug
    debug_assertions,  \* build profile: cfg!(debug_assertions)
    renders,           \* number of render calls started so far
    trace,             \* the tracing events of the current render call
    view_begin,        \* the `begin` signal of create_measures
    view_end,          \* the `end` signal of create_measures
    is_dragging,       \* the `is_dragging` signal
    canvas_width,      \* the `canvas_width` signal
    events,            \* number of events handled so far
    moved,             \* the last event handled and what it did
    faults,            \* number of event handlers that panicked
    data_len,          \* binary_search_by_with_index: data.len()
    probes,            \* the indices passed to f and to get_unchecked, in order
    answers            \* the Orderings f returned, in order

searchVars == <<mouse_x_time, size, base, steps, res, found>>

windowVars == <<begin_ns, end_ns, set_max, displayed_values, max_measure, polyline>>

foldVars == <<rows, row_i, measures_data, iter_order>>

coordVars == <<x, width, time_out, x_back>>

lodVars == <<duration_a, duration_b, lod_a, lod_b>>

segVars == <<seg_begin, seg_end, seg_lod, segments>>

colorVars == <<color_index, color>>

renderVars == <<ctx, ctx_scale, ctx_stack, begin, end, height, dpr, force_debug,
                debug_assertions, renders, trace>>

viewVars == <<view_begin, view_end, is_dragging, canvas_width, events, moved, faults>>

probeVars == <<data_len, probes, answers>>

chartVars == <<lodVars, segVars, colorVars, renderVars, viewVars, probeVars>>

vars == <<pc, overflow_checks, measures, searchVars, windowVars, foldVars, coordVars,
          chartVars>>

----------------------------------------------------------------------------
(* Bounds of the model *)

\* longest sample slice searched
MaxLen == 4
\* sample timestamps are drawn from 0..MaxTime
MaxTime == 3
\* width of usize in the model (32 on wasm32, 64 on x86_64)
UsizeBits == 8
\* longest MeasureSet.measures of the window and fold specifications
MaxSetLen == 3
\* sample values are drawn from 1..MaxValue
MaxValue == 2
\* longest Vec<Measure> folded by create_measures_memo
MaxRows == 3
\* representable row instants are drawn from 0..MaxRowTime
MaxRowTime == 1
\* i64::MAX of the model: timestamp_nanos_opt is None beyond it
NanosMax == 6
\* bits of the significand of f64 in the model (53 in IEEE 754 binary64)
MantBits == 6
\* canvas widths are drawn from 1..MaxWidth pixels
MaxWidth == 13
\* visible durations end_ns - begin_ns are drawn from 1..MaxDuration
MaxDuration == 66
\* ticks of a chrono Duration per millisecond (10^6 nanoseconds in chrono)
TicksPerMs == 100
\* compute_lod is applied to durations up to about 10^MaxExp ms
MaxExp == 5
\* width of i64 in the model of compute_segment_index (64 in Rust)
I64Bits == 21
\* compute_segment_index is applied to the lods 0..MaxLod
MaxLod == 18
\* get_color is applied to the series indices 0..MaxIndex
MaxIndex == 9
\* units of `width` and `height` per pixel in the model of render
Px == 4
\* the effect calls render on a canvas up to MaxRenders times
MaxRenders == 2
\* the canvas is 0..MaxCanvasWidth pixels wide in the model of the handlers
MaxCanvasWidth == 3
\* i32::MAX of the model of the handlers (2^31 - 1 in Rust)
I32Max == 127
\* a run of the handlers delivers up to MaxEvents events
MaxEvents == 3
\* the longest slice searched with an arbitrary predicate
MaxDataLen == 12

----------------------------------------------------------------------------
(* Constants of the program *)

\* f64::EPSILON, in units of 1/Px pixel (2^-52 in Rust)
EPSILON == 2

\* width / 204.0: the pixels per tick of the time axis
TickSpacing == 204

----------------------------------------------------------------------------
(* Option and slice helpers *)

None == <<>>

Some(v) == <<v>>

\* usize arithmetic is modulo 2^w
UsizeModulus == 2 ^ UsizeBits

\* slice::get: Some(element) when the index is in bounds, None otherwise
Get(s, i) == IF 0 <= i /\ i < Len(s) THEN Some(s[i + 1]) ELSE None

\* `index - 1` on usize when overflow checks are compiled out
WrappingSub1(i) == (i - 1) % UsizeModulus

\* `index - 1` on usize panics ("attempt to subtract with overflow") at
\* index 0 when overflow checks are compiled in (the dev profile)
Sub1Panics(i) == overflow_checks /\ i = 0

\* HashMap::new()
EmptyMap == [t \in {} |-> <<>>]

Min(a, b) == IF a <= b THEN a ELSE b

Max(a, b) == IF a >= b THEN a ELSE b

Time(sample) == sample[1]

Value(sample) == sample[2]

----------------------------------------------------------------------------
(* binary_search.rs *)

select_unpredictable_swapped(b, true_val, false_val) ==
    IF b THEN false_val ELSE true_val

select_unpredictable(b, true_val, false_val) ==
    IF b THEN true_val ELSE false_val

\* let half = size / 2
Half(sz) == sz \div 2

\* a size that shrinks by one less than half
ShrinkTooLittle(sz, half, cmp) == sz - half + 1

ShrinkEarlyExit(sz, half, cmp) == IF cmp = "Equal" THEN 1 ELSE sz - half

\* size -= half: the same whatever the comparison returned
Shrink(sz, half, cmp) == sz - half

\* base + (cmp == Ordering::Less) as usize
ErrIndex(b, cmp) == b + (IF cmp = "Less" THEN 1 ELSE 0)

----------------------------------------------------------------------------
(* canvas.rs: find_closest_measure *)

\* The closure find_closest_measure hands to binary_search_by_with_index.
closest_cmp(ms, index, t) ==
    LET sample == ms[index + 1]
        prev == Get(ms, WrappingSub1(index))
    IN  IF prev # None /\ Time(sample) > t /\ Time(prev[1]) < t
        THEN "Equal"
        ELSE IF Time(sample) < t THEN "Less" ELSE "Greater"

\* let mut size = data.len(); if size == 0 { return Err(0); } let mut base = 0
SearchStart ==
    /\ pc = "start"
    /\ size' = Len(measures)
    /\ IF Len(measures) = 0
       THEN /\ res' = <<"Err", 0>>
            /\ pc' = "return"
       ELSE /\ res' = res
            /\ pc' = "loop"
    /\ base' = 0
    /\ UNCHANGED <<overflow_checks, measures, mouse_x_time, steps, found>>
    /\ UNCHANGED <<windowVars, foldVars, coordVars, chartVars>>

\* one iteration of `while size > 1`
SearchLoop ==
    /\ pc = "loop"
    /\ size > 1
    /\ LET half == Half(size)
           mid == base + half
       IN  /\ steps' = steps + 1
           /\ IF Sub1Panics(mid)
              THEN /\ pc' = "panic"
                   /\ UNCHANGED <<base, size>>
              ELSE LET cmp == closest_cmp(measures, mid, mouse_x_time)
                   IN  /\ base' = select_unpredictable(cmp = "Greater", base, mid)
                       /\ size' = Shrink(size, half, cmp)
                       /\ pc' = "loop"
    /\ UNCHANGED <<overflow_checks, measures, mouse_x_time, res, found>>
    /\ UNCHANGED <<windowVars, foldVars, coordVars, chartVars>>

\* the comparison after the loop and the Ok / Err result
SearchFinal ==
    /\ pc = "loop"
    /\ size <= 1
    /\ steps' = steps + 1
    /\ IF Sub1Panics(base)
       THEN /\ pc' = "panic"
            /\ res' = res
       ELSE LET cmp == closest_cmp(measures, base, mouse_x_time)
            IN  /\ res' = IF cmp = "Equal"
                          THEN <<"Ok", base>>
                          ELSE <<"Err", ErrIndex(base, cmp)>>
                /\ pc' = "return"
    /\ UNCHANGED <<overflow_checks, measures, mouse_x_time, size, base, found>>
    /\ UNCHANGED <<windowVars, foldVars, coordVars, chartVars>>

\* let index = match res { Ok(x) | Err(x) => x }; measures.get(index).copied()
FindClosestReturn ==
    /\ pc = "return"
    /\ found' = Get(measures, res[2])
    /\ pc' = "done"
    /\ UNCHANGED <<overflow_checks, measures, mouse_x_time, size, base, steps, res>>
    /\ UNCHANGED <<windowVars, foldVars, coordVars, chartVars>>

----------------------------------------------------------------------------
(* Inputs of the search: slices sorted ascending by time, duplicates allowed *)

RECURSIVE SortedTimes(_)
\* the non-decreasing sequences of n timestamps of 0..MaxTime
SortedTimes(n) ==
    IF n = 0
    THEN {<<>>}
    ELSE {q \in {Append(s, t) : s \in SortedTimes(n - 1), t \in 0..MaxTime} :
            n = 1 \/ q[n - 1] <= q[n]}

\* the sample's value is its rank, so that equal timestamps stay distinguishable
WithRanks(times) == [k \in 1..Len(times) |-> <<times[k], k>>]

SearchInputs == {WithRanks(ts) : ts \in UNION {SortedTimes(n) : n \in 0..MaxLen}}

\* spec.md, section 8: the nearest-sample tie-break scenario
TieBreakSamples == <<<<0, 1>>, <<100, 2>>, <<200, 3>>>>

\* the variables of the operations a specification does not run
IdleSearch ==
    /\ mouse_x_time = 0
    /\ size = 0
    /\ base = 0
    /\ steps = 0
    /\ res = <<>>
    /\ found = None

IdleWindow ==
    /\ begin_ns = 0
    /\ end_ns = 0
    /\ set_max = 0
    /\ displayed_values = <<>>
    /\ max_measure = None
    /\ polyline = <<>>

IdleFold ==
    /\ rows = <<>>
    /\ row_i = 0
    /\ measures_data = EmptyMap
    /\ iter_order = <<>>

IdleCoord ==
    /\ x = 0
    /\ width = 0
    /\ time_out = None
    /\ x_back = None

IdleLod ==
    /\ duration_a = 0
    /\ duration_b = 0
    /\ lod_a = None
    /\ lod_b = None

IdleSeg ==
    /\ seg_begin = 0
    /\ seg_end = 0
    /\ seg_lod = 0
    /\ segments = None

IdleColor ==
    /\ color_index = <<>>
    /\ color = <<>>

IdleRender ==
    /\ ctx = <<>>
    /\ ctx_scale = 1
    /\ ctx_stack = <<>>
    /\ begin = 0
    /\ end = 0
    /\ height = 0
    /\ dpr = 1
    /\ force_debug = FALSE
    /\ debug_assertions = FALSE
    /\ renders = 0
    /\ trace = <<>>

IdleView ==
    /\ view_begin = 0
    /\ view_end = 0
    /\ is_dragging = FALSE
    /\ canvas_width = 0
    /\ events = 0
    /\ moved = <<>>
    /\ faults = 0

IdleProbe ==
    /\ data_len = 0
    /\ probes = <<>>
    /\ answers = <<>>

IdleChart ==
    /\ IdleLod
    /\ IdleSeg
    /\ IdleColor
    /\ IdleRender
    /\ IdleView
    /\ IdleProbe

Init ==
    /\ pc = "start"
    /\ overflow_checks \in BOOLEAN
    /\ \/ /\ measures \in SearchInputs
          /\ mouse_x_time \in (0 - 1)..(MaxTime + 1)
       \/ /\ measures = TieBreakSamples
          /\ mouse_x_time \in {50, 100, 150, 250}
    /\ size = 0
    /\ base = 0
    /\ steps = 0
    /\ res = <<>>
    /\ found = None
    /\ IdleWindow
    /\ IdleFold
    /\ IdleCoord
    /\ IdleChart

Next ==
    \/ SearchStart
    \/ SearchLoop
    \/ SearchFinal
    \/ FindClosestReturn

Spec == Init /\ [][Next]_vars

----------------------------------------------------------------------------
(* binary_search.rs: binary_search_by_with_index with an arbitrary predicate *)
(* The predicate f is any FnMut(usize, &T) -> Ordering: each call may answer  *)
(* Less, Equal or Greater, whatever it answered before. get_unchecked(i) is   *)
(* undefined behaviour for i >= data.len(): the run then ends in "undefined". *)

Orderings == {"Less", "Equal", "Greater"}

\* let mut size = data.len(); if size == 0 { return Err(0); } let mut base = 0
BinarySearchStart ==
    /\ pc = "bs_start"
    /\ size' = data_len
    /\ base' = 0
    /\ IF data_len = 0
       THEN /\ res' = <<"Err", 0>>
            /\ pc' = "bs_done"
       ELSE /\ res' = res
            /\ pc' = "bs_loop"
    /\ UNCHANGED <<overflow_checks, measures, mouse_x_time, steps, found>>
    /\ UNCHANGED <<windowVars, foldVars, coordVars>>
    /\ UNCHANGED <<lodVars, segVars, colorVars, renderVars, viewVars, probeVars>>

\* one iteration of `while size > 1`
BinarySearchLoop ==
    /\ pc = "bs_loop"
    /\ size > 1
    /\ LET half == Half(size)
           mid == (base + half) % UsizeModulus
       IN  /\ probes' = Append(probes, mid)
           /\ steps' = steps + 1
           /\ IF mid >= data_len
              THEN /\ pc' = "undefined"
                   /\ UNCHANGED <<base, size, answers>>
              ELSE \E cmp \in Orderings :
                       /\ answers' = Append(answers, cmp)
                       /\ base' = select_unpredictable(cmp = "Greater", base, mid)
                       /\ size' = Shrink(size, half, cmp)
                       /\ pc' = "bs_loop"
    /\ UNCHANGED <<overflow_checks, measures, mouse_x_time, res, found, data_len>>
    /\ UNCHANGED <<windowVars, foldVars, coordVars>>
    /\ UNCHANGED <<lodVars, segVars, colorVars, renderVars, viewVars>>

\* the comparison after the loop and the Ok / Err result
BinarySearchFinal ==
    /\ pc = "bs_loop"
    /\ size <= 1
    /\ probes' = Append(probes, base)
    /\ steps' = steps + 1
    /\ IF base >= data_len
       THEN /\ pc' = "undefined"
            /\ UNCHANGED <<res, answers>>
       ELSE \E cmp \in Orderings :
                /\ answers' = Append(answers, cmp)
                /\ res' = IF cmp = "Equal"
                          THEN <<"Ok", base>>
                          ELSE <<"Err", ErrIndex(base, cmp)>>
                /\ pc' = "bs_done"
    /\ UNCHANGED <<overflow_checks, measures, mouse_x_time, size, base, found, data_len>>
    /\ UNCHANGED <<windowVars, foldVars, coordVars>>
    /\ UNCHANGED <<lodVars, segVars, colorVars, renderVars, viewVars>>

InitBinarySearch ==
    /\ pc = "bs_start"
    /\ overflow_checks \in BOOLEAN
    /\ measures = <<>>
    /\ data_len \in 0..MaxDataLen
    /\ probes = <<>>
    /\ answers = <<>>
    /\ IdleSearch
    /\ IdleWindow
    /\ IdleFold
    /\ IdleCoord
    /\ IdleLod
    /\ IdleSeg
    /\ IdleColor
    /\ IdleRender
    /\ IdleView

NextBinarySearch ==
    \/ BinarySearchStart
    \/ BinarySearchLoop
    \/ BinarySearchFinal

SpecBinarySearch == InitBinarySearch /\ [][NextBinarySearch]_vars

----------------------------------------------------------------------------
(* canvas.rs: get_max_measure_value and the polyline of render_measures *)

InWindowEither(time, b, e) == time > b \/ time < e

\* *time > begin_ns && *time < end_ns
InWindow(time, b, e) == time > b /\ time < e

\* get_max_measure_value: `displayed` for the sample at `index`
Displayed(ms, index, b, e) ==
    LET prev == Get(ms, WrappingSub1(index))
        next == Get(ms, (index + 1) % UsizeModulus)
    IN  \/ InWindow(Time(ms[index + 1]), b, e)
        \/ prev # None /\ InWindow(Time(prev[1]), b, e)
        \/ next # None /\ InWindow(Time(next[1]), b, e)

\* render_measures: `drawn` for the sample at `index`
Drawn(ms, index, b, e) ==
    LET prev == Get(ms, WrappingSub1(index))
        next == Get(ms, (index + 1) % UsizeModulus)
    IN  \/ InWindow(Time(ms[index + 1]), b, e)
        \/ prev # None /\ InWindow(Time(prev[1]), b, e)
        \/ next # None /\ InWindow(Time(next[1]), b, e)

RECURSIVE DisplayedValues(_, _, _, _)
\* the values pushed by the first n iterations of get_max_measure_value's loop
DisplayedValues(ms, n, b, e) ==
    IF n = 0
    THEN <<>>
    ELSE LET before == DisplayedValues(ms, n - 1, b, e)
         IN  IF Displayed(ms, n - 1, b, e)
             THEN Append(before, Value(ms[n]))
             ELSE before

RECURSIVE DrawnIndices(_, _, _, _)
\* the indices given to line_to by the first n iterations of render_measures' loop
DrawnIndices(ms, n, b, e) ==
    IF n = 0
    THEN <<>>
    ELSE LET before == DrawnIndices(ms, n - 1, b, e)
         IN  IF Drawn(ms, n - 1, b, e)
             THEN Append(before, n - 1)
             ELSE before

\* Iterator::max_by(total_cmp): None on an empty slice
find_max_measure_value(values) ==
    IF values = <<>>
    THEN None
    ELSE Some(CHOOSE v \in {values[k] : k \in 1..Len(values)} :
                \A k \in 1..Len(values) : values[k] <= v)

\* Option::unwrap_or
unwrap_or(opt, default) == IF opt = None THEN default ELSE opt[1]

\* render_measures, line 200: max_measure = get_max_measure_value(...).
\* The loop computes `index - 1` at index 0 first, before any value is pushed.
GetMaxMeasureValue ==
    /\ pc = "get_max"
    /\ IF \E index \in 0..(Len(measures) - 1) : Sub1Panics(index)
       THEN /\ pc' = "panic"
            /\ UNCHANGED <<displayed_values, max_measure>>
       ELSE /\ displayed_values' =
                   DisplayedValues(measures, Len(measures), begin_ns, end_ns)
            /\ max_measure' =
                   Some(unwrap_or(find_max_measure_value(displayed_values'), set_max))
            /\ pc' = "polyline"
    /\ UNCHANGED <<overflow_checks, measures, begin_ns, end_ns, set_max, polyline>>
    /\ UNCHANGED <<searchVars, foldVars, coordVars, chartVars>>

\* render_measures, lines 202-223: the line_to calls for one measure set
RenderMeasuresLine ==
    /\ pc = "polyline"
    /\ IF \E index \in 0..(Len(measures) - 1) : Sub1Panics(index)
       THEN /\ pc' = "panic"
            /\ UNCHANGED polyline
       ELSE /\ polyline' = DrawnIndices(measures, Len(measures), begin_ns, end_ns)
            /\ pc' = "done"
    /\ UNCHANGED <<overflow_checks, measures, begin_ns, end_ns, set_max,
                   displayed_values, max_measure>>
    /\ UNCHANGED <<searchVars, foldVars, coordVars, chartVars>>

RECURSIVE SortedSamples(_)
\* the slices of n samples, non-decreasing in time, values in 1..MaxValue
SortedSamples(n) ==
    IF n = 0
    THEN {<<>>}
    ELSE {q \in {Append(s, <<t, v>>) : s \in SortedSamples(n - 1),
                                       t \in 0..MaxTime, v \in 1..MaxValue} :
            n = 1 \/ Time(q[n - 1]) <= Time(q[n])}

\* MeasureSet.max as the fold leaves it: the largest value of the set
MaxValueOf(ms) ==
    CHOOSE v \in {Value(ms[k]) : k \in 1..Len(ms)} :
        \A k \in 1..Len(ms) : Value(ms[k]) <= v

\* spec.md, section 8: the windowed-visibility scenario
WindowSamples == <<<<0, 1>>, <<50, 2>>, <<150, 3>>>>

InitWindow ==
    /\ pc = "get_max"
    /\ overflow_checks \in BOOLEAN
    /\ \/ /\ measures \in UNION {SortedSamples(n) : n \in 1..MaxSetLen}
          /\ begin_ns \in (0 - 1)..MaxTime
          /\ end_ns \in (begin_ns + 1)..(MaxTime + 1)
       \/ /\ measures = WindowSamples
          /\ begin_ns \in {40, 60}
          /\ end_ns = 140
    /\ set_max = MaxValueOf(measures)
    /\ displayed_values = <<>>
    /\ max_measure = None
    /\ polyline = <<>>
    /\ IdleSearch
    /\ IdleFold
    /\ IdleCoord
    /\ IdleChart

NextWindow ==
    \/ GetMaxMeasureValue
    \/ RenderMeasuresLine

SpecWindow == InitWindow /\ [][NextWindow]_vars

----------------------------------------------------------------------------
(* create_measures.rs: create_measures_memo, create_measures_targets_memo *)

\* Measure.target
Targets == {"cpu", "mem"}

\* Measure.time is a string: <<"rfc3339", t>> is a well-formed RFC 3339 text
\* denoting the instant t (nanoseconds since the epoch), <<"garbage">> is a
\* text that is not RFC 3339.
TimeStrings ==
    {<<"garbage">>} \cup {<<"rfc3339", t>> : t \in (0..MaxRowTime) \cup {NanosMax + 1}}

\* DateTime::parse_from_rfc3339
parse_from_rfc3339(text) ==
    IF text[1] = "rfc3339" THEN <<"Ok", text[2]>> ELSE <<"Err">>

\* DateTime::timestamp_nanos_opt: None outside the i64 nanosecond range
timestamp_nanos_opt(t) ==
    IF (0 - NanosMax) - 1 <= t /\ t <= NanosMax THEN Some(t) ELSE None

and_modify_swapped(measure_set, time, value) ==
    [measure_set EXCEPT !.min = Max(@, value),
                        !.max = Min(@, value),
                        !.start = Min(@, time),
                        !.end = Max(@, time),
                        !.measures = Append(@, <<time, value>>)]

and_modify_prepend(measure_set, time, value) ==
    [measure_set EXCEPT !.min = Min(@, value),
                        !.max = Max(@, value),
                        !.start = Min(@, time),
                        !.end = Max(@, time),
                        !.measures = <<<<time, value>>>> \o @]

\* the closure of and_modify: the target already has a MeasureSet
and_modify(measure_set, time, value) ==
    [measure_set EXCEPT !.min = Min(@, value),
                        !.max = Max(@, value),
                        !.start = Min(@, time),
                        !.end = Max(@, time),
                        !.measures = Append(@, <<time, value>>)]

\* the MeasureSet of or_insert: the target's first sample
or_insert(time, value, unit) ==
    [min |-> value, max |-> value, start |-> time, end |-> time,
     unit |-> unit, measures |-> <<<<time, value>>>>]

\* measures_data.entry(target).and_modify(..).or_insert(..)
entry_upsert(md, target, time, value, unit) ==
    IF target \in DOMAIN md
    THEN [md EXCEPT ![target] = and_modify(@, time, value)]
    ELSE [t \in (DOMAIN md) \cup {target} |->
            IF t = target THEN or_insert(time, value, unit) ELSE md[t]]

fold_row_default(md, measure) ==
    LET parsed == parse_from_rfc3339(measure.time)
    IN  IF parsed[1] = "Err"
        THEN md
        ELSE entry_upsert(md, measure.target,
                          unwrap_or(timestamp_nanos_opt(parsed[2]), 0),
                          measure.value, measure.unit)

\* the body of `for measure in measures`: the map after one row
fold_row(md, measure) ==
    LET parsed == parse_from_rfc3339(measure.time)
    IN  IF parsed[1] = "Err"
        THEN md
        ELSE LET time == timestamp_nanos_opt(parsed[2])
             IN  IF time = None
                 THEN md
                 ELSE entry_upsert(md, measure.target, time[1],
                                   measure.value, measure.unit)

\* the sequences enumerating every element of the set keys once
Orders(keys) ==
    {o \in [1..Cardinality(keys) -> keys] :
        \A i, j \in 1..Cardinality(keys) : i # j => o[i] # o[j]}

\* one iteration of `for measure in measures`. std's HashMap (RandomState)
\* enumerates its keys in an order that depends on the per-map hash seed:
\* inserting a new key leaves any order of the keys possible.
FoldRow ==
    /\ pc = "fold"
    /\ row_i < Len(rows)
    /\ measures_data' = fold_row(measures_data, rows[row_i + 1])
    /\ row_i' = row_i + 1
    /\ IF DOMAIN measures_data' = DOMAIN measures_data
       THEN iter_order' = iter_order
       ELSE iter_order' \in Orders(DOMAIN measures_data')
    /\ pc' = "fold"
    /\ UNCHANGED <<overflow_checks, measures, rows>>
    /\ UNCHANGED <<searchVars, windowVars, coordVars, chartVars>>

\* Some(measures_data): the memo's value once every row is consumed
FoldDone ==
    /\ pc = "fold"
    /\ row_i = Len(rows)
    /\ pc' = "fold_done"
    /\ UNCHANGED <<overflow_checks, measures, foldVars>>
    /\ UNCHANGED <<searchVars, windowVars, coordVars, chartVars>>

\* create_measures_targets_memo: measures.iter().map(|(target, measure_set)|
\* (target.clone(), measure_set.unit.clone())).collect()
measures_targets ==
    [k \in 1..Len(iter_order) |->
        <<iter_order[k], measures_data[iter_order[k]].unit>>]

\* the rows a query result can hold; the fold reads the target and the
\* value of a row only when its timestamp is valid
Rows ==
    {r \in [target : Targets, time : TimeStrings, value : 1..MaxValue,
            unit : {"ms"}] :
        r.value = 1 \/ (r.time[1] = "rfc3339" /\ r.time[2] <= NanosMax)}

InitFold ==
    /\ pc = "fold"
    /\ overflow_checks = FALSE    \* the fold has no overflow-checked arithmetic
    /\ measures = <<>>
    /\ rows \in UNION {[1..n -> Rows] : n \in 0..MaxRows}
    /\ row_i = 0
    /\ measures_data = EmptyMap
    /\ iter_order = <<>>
    /\ IdleSearch
    /\ IdleWindow
    /\ IdleCoord
    /\ IdleChart

NextFold ==
    \/ FoldRow
    \/ FoldDone

SpecFold == InitFold /\ [][NextFold]_vars

----------------------------------------------------------------------------
(* canvas.rs: time_to_x, x_to_time *)

(* A non-negative f64 is the pair <<m, e>> standing for m * 2^e, with m = 0   *)
(* or 2^(MantBits-1) <= m < 2^MantBits. Every operation rounds its exact      *)
(* result to the nearest such number, ties to the even significand, as IEEE   *)
(* 754 does; the exponent range is not bounded (nothing here overflows).      *)

RECURSIVE RoundToFloat(_, _, _)
\* the float nearest to (n / d) * 2^e, for n >= 0 and d > 0
RoundToFloat(n, d, e) ==
    IF n = 0
    THEN <<0, 0>>
    ELSE IF n < (2 ^ (MantBits - 1)) * d
    THEN RoundToFloat(2 * n, d, e - 1)
    ELSE IF n >= (2 ^ MantBits) * d
    THEN RoundToFloat(n, 2 * d, e + 1)
    ELSE LET q == n \div d
             r == n % d
             m == IF 2 * r > d \/ (2 * r = d /\ q % 2 = 1) THEN q + 1 ELSE q
         IN  IF m = 2 ^ MantBits THEN <<2 ^ (MantBits - 1), e + 1>> ELSE <<m, e>>

\* `k as f64` for an integer k >= 0
FromInt(k) == RoundToFloat(k, 1, 0)

\* a * b on f64
FMul(a, b) == RoundToFloat(a[1] * b[1], 1, a[2] + b[2])

\* a / b on f64, b # 0
FDiv(a, b) == RoundToFloat(a[1], b[1], a[2] - b[2])

\* `a as i64`: truncation toward zero
Trunc(a) == IF a[2] >= 0 THEN a[1] * (2 ^ a[2]) ELSE a[1] \div (2 ^ (0 - a[2]))

\* rev_factor = 1.0 / width; begin_ns + (rev_factor * x * (end_ns - begin_ns) as f64) as i64
x_to_time(fx, b, e, fwidth) ==
    LET rev_factor == FDiv(FromInt(1), fwidth)
    IN  b + Trunc(FMul(FMul(rev_factor, fx), FromInt(e - b)))

\* rev_factor = 1.0 / (end_ns - begin_ns) as f64; delta = (time - begin_ns) as f64;
\* rev_factor * delta * width
time_to_x(time, b, e, fwidth) ==
    LET rev_factor == FDiv(FromInt(1), FromInt(e - b))
        delta == FromInt(time - b)
    IN  FMul(FMul(rev_factor, delta), fwidth)

\* x_to_time(x, begin_ns, end_ns, width), as render_dots and the tooltip call it
XToTime ==
    /\ pc = "coord"
    /\ time_out' = Some(x_to_time(FromInt(x), begin_ns, end_ns, FromInt(width)))
    /\ pc' = "coord_back"
    /\ UNCHANGED <<overflow_checks, measures, x, width, x_back>>
    /\ UNCHANGED <<searchVars, windowVars, foldVars, chartVars>>

\* time_to_x of the time just computed, as render_dots maps a sample back
TimeToX ==
    /\ pc = "coord_back"
    /\ x_back' = Some(time_to_x(time_out[1], begin_ns, end_ns, FromInt(width)))
    /\ pc' = "coord_done"
    /\ UNCHANGED <<overflow_checks, measures, x, width, time_out>>
    /\ UNCHANGED <<searchVars, windowVars, foldVars, chartVars>>

\* end_ns > begin_ns, width > 0 and a pixel abscissa x of [0, width]
InitCoord ==
    /\ pc = "coord"
    /\ overflow_checks = FALSE    \* no overflow-checked arithmetic is reached
    /\ measures = <<>>
    /\ width \in 1..MaxWidth
    /\ x \in 0..width
    /\ begin_ns \in 0..1
    /\ end_ns \in (begin_ns + 1)..(begin_ns + MaxDuration)
    /\ time_out = None
    /\ x_back = None
    /\ set_max = 0
    /\ displayed_values = <<>>
    /\ max_measure = None
    /\ polyline = <<>>
    /\ IdleSearch
    /\ IdleFold
    /\ IdleChart

NextCoord ==
    \/ XToTime
    \/ TimeToX

SpecCoord == InitCoord /\ [][NextCoord]_vars

----------------------------------------------------------------------------
(* canvas.rs: compute_lod *)

(* A chrono Duration is an integer number of ticks, TicksPerMs ticks to the   *)
(* millisecond (chrono counts nanoseconds, 10^6 to the millisecond).          *)

\* Duration::num_milliseconds: the whole milliseconds, truncated toward zero
num_milliseconds(d) ==
    IF d >= 0 THEN d \div TicksPerMs ELSE 0 - ((0 - d) \div TicksPerMs)

RECURSIVE log10_floor(_)
\* the integer part of f64::log10 of a whole number n >= 1 (the cast of the
\* millisecond count to f64 is exact below 2^53 ms)
log10_floor(n) == IF n < 10 THEN 0 ELSE 1 + log10_floor(n \div 10)

\* compute_lod on the absolute value of the duration
compute_lod_abs(duration) ==
    LET ms == num_milliseconds(IF duration < 0 THEN 0 - duration ELSE duration)
    IN  IF ms = 0 THEN 0 ELSE Max(0, log10_floor(ms) - 2)

\* the level of detail from whole seconds: ((num_seconds as f64).log10() - 1.0)
compute_lod_seconds(duration) ==
    LET s == num_milliseconds(duration) \div 1000
    IN  IF s <= 0 THEN 0 ELSE Max(0, log10_floor(s) - 1)

\* ((duration.num_milliseconds() as f64).log10() - 2.0).max(0.0) as u32
\* log10 is -inf at 0 and NaN below 0; f64::max(0.0) turns both into 0.0, and
\* `as u32` truncates toward zero
compute_lod(duration) ==
    LET ms == num_milliseconds(duration)
    IN  IF ms <= 0 THEN 0 ELSE Max(0, log10_floor(ms) - 2)

\* compute_lod(duration), as render_stats calls it, for two durations
ComputeLod ==
    /\ pc = "lod"
    /\ lod_a' = Some(compute_lod(duration_a))
    /\ lod_b' = Some(compute_lod(duration_b))
    /\ pc' = "lod_done"
    /\ UNCHANGED <<overflow_checks, measures, duration_a, duration_b>>
    /\ UNCHANGED <<searchVars, windowVars, foldVars, coordVars>>
    /\ UNCHANGED <<segVars, colorVars, renderVars, viewVars, probeVars>>

\* millisecond counts around the powers of ten up to 10^MaxExp
LodMillis ==
    {0} \union {10 ^ k + o : k \in 0..MaxExp, o \in {0 - 1, 0, 1}}
        \union {5 * (10 ^ k) : k \in 0..MaxExp}

\* durations of either sign, with and without a fraction of a millisecond
LodDurations ==
    {s * (ms * TicksPerMs + r) : ms \in LodMillis, r \in {0, TicksPerMs - 1},
                                 s \in {0 - 1, 1}}

\* two durations d1 < d2
InitLod ==
    /\ pc = "lod"
    /\ overflow_checks = FALSE    \* compute_lod has no integer arithmetic
    /\ measures = <<>>
    /\ duration_a \in LodDurations
    /\ duration_b \in {d \in LodDurations : duration_a < d}
    /\ lod_a = None
    /\ lod_b = None
    /\ IdleSearch
    /\ IdleWindow
    /\ IdleFold
    /\ IdleCoord
    /\ IdleSeg
    /\ IdleColor
    /\ IdleRender
    /\ IdleView
    /\ IdleProbe

NextLod == ComputeLod

SpecLod == InitLod /\ [][NextLod]_vars

----------------------------------------------------------------------------
(* canvas.rs: compute_segment_duration, compute_segment_index *)

(* A DateTime<Utc> is its offset from DateTime::UNIX_EPOCH in ticks; i64 is   *)
(* I64Bits wide, two's complement.                                            *)

I64Max == 2 ^ (I64Bits - 1) - 1

I64Min == 0 - (2 ^ (I64Bits - 1))

\* the i64 a wrapping operation leaves for the exact result v
WrapI64(v) ==
    LET m == v % (2 ^ I64Bits)
    IN  IF m > I64Max THEN m - 2 ^ I64Bits ELSE m

\* i64 `/`: the quotient truncated toward zero, for b # 0
TruncDiv(a, b) ==
    LET q == (IF a < 0 THEN 0 - a ELSE a) \div (IF b < 0 THEN 0 - b ELSE b)
    IN  IF (a < 0) = (b < 0) THEN q ELSE 0 - q

RECURSIVE checked_pow10(_)
\* 10_i64.pow(n) with overflow checks: None where the build panics
checked_pow10(n) ==
    IF n = 0
    THEN Some(1)
    ELSE LET p == checked_pow10(n - 1)
         IN  IF p = None \/ 10 * p[1] > I64Max THEN None ELSE Some(10 * p[1])

RECURSIVE wrapping_pow10(_)
\* 10_i64.pow(n) without overflow checks: the product modulo 2^I64Bits
wrapping_pow10(n) == IF n = 0 THEN 1 ELSE WrapI64(10 * wrapping_pow10(n - 1))

\* Duration::num_nanoseconds: None when the ticks do not fit an i64
num_nanoseconds(d) == IF d < I64Min \/ d > I64Max THEN None ELSE Some(d)

\* Duration::milliseconds(10_i64.pow(lod + 3) / 10), in ticks, for a build
\* where the power does not panic
compute_segment_duration(lod) == TruncDiv(wrapping_pow10(lod + 3), 10) * TicksPerMs

\* compute_segment_duration panics: "attempt to multiply with overflow"
SegmentDurationPanics(lod) == overflow_checks /\ checked_pow10(lod + 3) = None

\* first = (begin - UNIX_EPOCH).num_nanoseconds()? / segment_duration.num_nanoseconds()?
\* last = (end - UNIX_EPOCH).num_nanoseconds()? / segment_duration.num_nanoseconds()?
\* Some(first..last); the divisor is not 0 here (see ComputeSegmentIndex)
compute_segment_index(b, e, lod) ==
    LET segment_duration == compute_segment_duration(lod)
        begin_off == num_nanoseconds(b)
        end_off == num_nanoseconds(e)
        seg_ns == num_nanoseconds(segment_duration)
    IN  IF begin_off = None \/ seg_ns = None \/ end_off = None
        THEN None
        ELSE Some(<<TruncDiv(begin_off[1], seg_ns[1]), TruncDiv(end_off[1], seg_ns[1])>>)

\* the i64 division of compute_segment_index panics: the divisor is 0, or the
\* quotient i64::MIN / -1 overflows (both panic in every build profile)
SegmentDivisionPanics(b, e, lod) ==
    LET seg_ns == num_nanoseconds(compute_segment_duration(lod))
    IN  /\ seg_ns # None
        /\ num_nanoseconds(b) # None
        /\ \/ seg_ns[1] = 0
           \/ seg_ns[1] = 0 - 1 /\ (b = I64Min \/ (e = I64Min /\ num_nanoseconds(e) # None))

\* compute_segment_index(begin, end, lod)
ComputeSegmentIndex ==
    /\ pc = "segment"
    /\ IF SegmentDurationPanics(seg_lod) \/ SegmentDivisionPanics(seg_begin, seg_end, seg_lod)
       THEN /\ pc' = "panic"
            /\ UNCHANGED segments
       ELSE /\ pc' = "segment_done"
            /\ segments' = Some(compute_segment_index(seg_begin, seg_end, seg_lod))
    /\ UNCHANGED <<overflow_checks, measures, seg_begin, seg_end, seg_lod>>
    /\ UNCHANGED <<searchVars, windowVars, foldVars, coordVars>>
    /\ UNCHANGED <<lodVars, colorVars, renderVars, viewVars, probeVars>>

\* offsets from the epoch on both of its sides, at and beyond the i64 range
SegTimes ==
    {I64Min - 1, I64Min, 0 - 25000, 0 - 10000, 0 - 1, 0, 1, 9999, 10000, 25000,
     1000000, I64Max, I64Max + 1}

\* any lod, and end >= begin
InitSegment ==
    /\ pc = "segment"
    /\ overflow_checks \in BOOLEAN
    /\ measures = <<>>
    /\ seg_begin \in SegTimes
    /\ seg_end \in {t \in SegTimes : t >= seg_begin}
    /\ seg_lod \in 0..MaxLod
    /\ segments = None
    /\ IdleSearch
    /\ IdleWindow
    /\ IdleFold
    /\ IdleCoord
    /\ IdleLod
    /\ IdleColor
    /\ IdleRender
    /\ IdleView
    /\ IdleProbe

NextSegment == ComputeSegmentIndex

SpecSegment == InitSegment /\ [][NextSegment]_vars

----------------------------------------------------------------------------
(* canvas.rs: COLORS, get_color *)

COLORS == <<"#ff00c1", "#9600ff", "#4900ff", "#00b8ff", "#00fff9">>

\* get_color clamping the index to the palette instead of cycling
get_color_clamped(i) == COLORS[Min(i, Len(COLORS) - 1) + 1]

\* COLORS[index % COLORS.len()]
get_color(i) == COLORS[(i % Len(COLORS)) + 1]

\* get_color(index) for the series indices being enumerated
GetColor ==
    /\ pc = "color"
    /\ color' = [k \in 1..Len(color_index) |-> get_color(color_index[k])]
    /\ pc' = "color_done"
    /\ UNCHANGED <<overflow_checks, measures, color_index>>
    /\ UNCHANGED <<searchVars, windowVars, foldVars, coordVars>>
    /\ UNCHANGED <<lodVars, segVars, renderVars, viewVars, probeVars>>

\* the indices of two series of the same enumeration
InitColor ==
    /\ pc = "color"
    /\ overflow_checks = FALSE    \* index % 5 cannot overflow
    /\ measures = <<>>
    /\ color_index \in {<<i, j>> : i \in 0..MaxIndex, j \in 0..MaxIndex}
    /\ color = <<>>
    /\ IdleSearch
    /\ IdleWindow
    /\ IdleFold
    /\ IdleCoord
    /\ IdleLod
    /\ IdleSeg
    /\ IdleRender
    /\ IdleView
    /\ IdleProbe

NextColor == GetColor

SpecColor == InitColor /\ [][NextColor]_vars

----------------------------------------------------------------------------
(* canvas.rs: MeasuresCanvas::render and its four sub-passes *)

(* In this part `width`, `height` and `x` (the mouse abscissa) count units of *)
(* 1/Px pixel, so that a positive size below f64::EPSILON exists; begin and   *)
(* end are DateTime<Utc> values, as offsets from the epoch in nanoseconds.    *)
(* `ctx` is the list of the calls made on the drawing context by the current  *)
(* render call, `trace` the list of the tracing events it emitted.            *)

RECURSIVE search_loop(_, _, _, _)
\* binary_search_by_with_index: `base` after the loop `while size > 1`
search_loop(ms, t, sz, b) ==
    IF sz <= 1
    THEN b
    ELSE LET half == Half(sz)
             mid == b + half
             cmp == closest_cmp(ms, mid, t)
         IN  search_loop(ms, t, Shrink(sz, half, cmp),
                         select_unpredictable(cmp = "Greater", b, mid))

\* find_closest_measure(measures, mouse_x_time) as a function of its arguments
find_closest_measure(ms, t) ==
    IF Len(ms) = 0
    THEN Get(ms, 0)
    ELSE LET b == search_loop(ms, t, Len(ms), 0)
             cmp == closest_cmp(ms, b, t)
         IN  Get(ms, IF cmp = "Equal" THEN b ELSE ErrIndex(b, cmp))

\* find_closest_measure evaluates its predicate at index 0 (the loop probes
\* mid >= 1 only, the comparison after the loop probes base): `index - 1` panics
FindClosestPanics(ms, t) ==
    /\ Len(ms) > 0
    /\ Sub1Panics(search_loop(ms, t, Len(ms), 0))

\* a loop over the samples of a set computes `index - 1` at index 0
SetLoopPanics(ms) == \E i \in 0..(Len(ms) - 1) : Sub1Panics(i)

\* get_max_measure_value(measure_set, begin_ns, end_ns)
get_max_measure_value(measure_set, b, e) ==
    unwrap_or(find_max_measure_value(
                  DisplayedValues(measure_set.measures, Len(measure_set.measures), b, e)),
              measure_set.max)

\* a duration_trunc that does not snap the instant
duration_trunc_none(t, span) ==
    IF span <= 0 \/ span > NanosMax \/ timestamp_nanos_opt(t) = None
    THEN <<"Err">>
    ELSE <<"Ok", t>>

\* DateTime::duration_trunc(span): the instant rounded down to a multiple of
\* span; an error for a span that is not positive or has no i64 nanoseconds,
\* and for an instant that has no i64 nanoseconds
duration_trunc(t, span) ==
    IF span <= 0 \/ span > NanosMax \/ timestamp_nanos_opt(t) = None
    THEN <<"Err">>
    ELSE <<"Ok", t - (t % span)>>

\* ((width / 204.0) as i32).max(1)
Scales(w) == Max(w \div (TickSpacing * Px), 1)

RECURSIVE TickCalls(_, _, _)
\* the calls of the last n iterations of `for _ in 0..scales`, `time` being
\* the loop's variable: an iteration whose time has no i64 nanoseconds
\* continues without drawing and without advancing `time`
TickCalls(time, n, interval) ==
    IF n = 0
    THEN <<>>
    ELSE IF timestamp_nanos_opt(time) = None
    THEN TickCalls(time, n - 1, interval)
    ELSE <<<<"begin_path">>, <<"move_to", time>>, <<"line_to", time>>,
           <<"set_stroke_style", "white">>, <<"stroke">>, <<"fill_text", "tick", time>>>>
         \o TickCalls(time + interval, n - 1, interval)

RECURSIVE TickErrors(_, _, _)
\* the error! events of the same iterations
TickErrors(time, n, interval) ==
    IF n = 0
    THEN <<>>
    ELSE IF timestamp_nanos_opt(time) = None
    THEN <<"conversion nanoseconds overflow">> \o TickErrors(time, n - 1, interval)
    ELSE TickErrors(time + interval, n - 1, interval)

\* render_scales drawing the axis line before it converts begin and end
render_scales_axis_first(w, b, e) ==
    LET axis == <<<<"begin_path">>, <<"move_to", "axis">>, <<"line_to", "axis">>,
                  <<"set_stroke_style", "white">>, <<"stroke">>>>
    IN  IF timestamp_nanos_opt(b) = None \/ timestamp_nanos_opt(e) = None
        THEN <<axis, <<"rendering scales", "conversion nanoseconds overflow">>>>
        ELSE <<axis, <<"rendering scales">>>>

\* render_scales: <<calls on the context, tracing events>>
render_scales(w, b, e) ==
    IF timestamp_nanos_opt(b) = None \/ timestamp_nanos_opt(e) = None
    THEN <<<<>>, <<"rendering scales", "conversion nanoseconds overflow">>>>
    ELSE LET axis == <<<<"begin_path">>, <<"move_to", "axis">>, <<"line_to", "axis">>,
                       <<"set_stroke_style", "white">>, <<"stroke">>>>
             duration == e - b
             scales == Scales(w)
             interval == TruncDiv(duration, scales)
             truncated_begin_time == duration_trunc(b, interval)
         IN  IF truncated_begin_time[1] = "Err"
             THEN <<axis, <<"rendering scales", "date time duration trunc error">>>>
             ELSE <<axis \o TickCalls(truncated_begin_time[2] + interval, scales, interval),
                    <<"rendering scales">>
                    \o TickErrors(truncated_begin_time[2] + interval, scales, interval)>>

RECURSIVE LineToCalls(_, _, _, _, _)
\* render_measures: the line_to calls of the first n samples of a set; a
\* call is recorded with the sample and the value scale its y is computed with
LineToCalls(ms, n, b, e, max_value) ==
    IF n = 0
    THEN <<>>
    ELSE LineToCalls(ms, n - 1, b, e, max_value)
         \o (IF Drawn(ms, n - 1, b, e)
             THEN <<<<"line_to", Time(ms[n]), Value(ms[n]), max_value>>>>
             ELSE <<>>)

RECURSIVE MeasuresCalls(_, _, _, _, _)
\* render_measures: the calls for the first n series of the enumeration
MeasuresCalls(md, order, n, b, e) ==
    IF n = 0
    THEN <<>>
    ELSE LET measure_set == md[order[n]]
         IN  MeasuresCalls(md, order, n - 1, b, e)
             \o <<<<"begin_path">>, <<"set_stroke_style", get_color(n - 1)>>>>
             \o LineToCalls(measure_set.measures, Len(measure_set.measures), b, e,
                            get_max_measure_value(measure_set, b, e))
             \o <<<<"stroke">>>>

RECURSIVE DotsCalls(_, _, _, _)
\* render_dots: the calls for the first n series of the enumeration; the arc
\* is recorded with the sample and the value scale its y is computed with
DotsCalls(md, order, n, t) ==
    IF n = 0
    THEN <<>>
    ELSE LET measure_set == md[order[n]]
             closest == find_closest_measure(measure_set.measures, t)
         IN  DotsCalls(md, order, n - 1, t)
             \o (IF closest = None
                 THEN <<>>
                 ELSE <<<<"set_fill_style", get_color(n - 1)>>, <<"begin_path">>,
                        <<"arc", Time(closest[1]), Value(closest[1]), measure_set.max>>,
                        <<"fill">>, <<"set_fill_style", "white">>>>)

RECURSIVE NumPoints(_, _, _, _, _)
\* render_stats: `num_points` after the first n series
NumPoints(md, order, n, b, e) ==
    IF n = 0
    THEN 0
    ELSE NumPoints(md, order, n - 1, b, e)
         + Len(DisplayedValues(md[order[n]].measures, Len(md[order[n]].measures), b, e))

RECURSIVE LegendCalls(_, _)
\* render_stats: the legend lines of the first n series
LegendCalls(order, n) ==
    IF n = 0
    THEN <<>>
    ELSE LegendCalls(order, n - 1)
         \o <<<<"set_fill_style", get_color(n - 1)>>, <<"fill_text", order[n]>>,
              <<"set_fill_style", "white">>>>

\* render_stats without a panic: the text lines, then the legend.
\* Duration::to_std fails for a negative duration.
StatsCalls(md, order, b, e) ==
    <<<<"fill_text", "points", NumPoints(md, order, Len(order), b, e)>>>>
    \o (IF e - b >= 0 THEN <<<<"fill_text", "duration">>>> ELSE <<>>)
    \o <<<<"fill_text", "lod">>, <<"fill_text", "segment duration">>,
         <<"fill_text", "segments">>>>
    \o LegendCalls(order, Len(order))

\* the first series of the enumeration whose sample loop panics, 0 if none
FirstLoopPanic(md, order) ==
    LET panicking == {n \in 1..Len(order) : SetLoopPanics(md[order[n]].measures)}
    IN  IF panicking = {} THEN 0 ELSE CHOOSE n \in panicking : \A k \in panicking : n <= k

\* the first series of the enumeration whose search panics, 0 if none
FirstSearchPanic(md, order, t) ==
    LET panicking == {n \in 1..Len(order) : FindClosestPanics(md[order[n]].measures, t)}
    IN  IF panicking = {} THEN 0 ELSE CHOOSE n \in panicking : \A k \in panicking : n <= k

\* begin or end has no i64 nanoseconds: what the sub-passes test first
TimesOverflow == timestamp_nanos_opt(begin) = None \/ timestamp_nanos_opt(end) = None

\* the size guard testing for sizes that are not positive
SizeGuardNotPositive(w, h) == w <= 0 \/ h <= 0

\* if width < f64::EPSILON || height < f64::EPSILON { return; }
SizeGuard(w, h) == w < EPSILON \/ h < EPSILON

\* render, lines 69-82: the size guard, then save, scale and the background.
\* CanvasRenderingContext2d.save pushes the drawing state, scale multiplies the
\* current transform.
RenderEnter ==
    /\ pc = "render"
    /\ IF SizeGuard(width, height)
       THEN /\ pc' = "render_done"
            /\ ctx' = <<>>
            /\ UNCHANGED <<ctx_scale, ctx_stack>>
       ELSE /\ pc' = "scales"
            /\ ctx' = <<<<"save">>, <<"scale", dpr>>, <<"set_font">>,
                        <<"set_fill_style", "#13171f">>, <<"fill_rect">>,
                        <<"set_fill_style", "white">>>>
            /\ ctx_stack' = Append(ctx_stack, ctx_scale)
            /\ ctx_scale' = ctx_scale * dpr
    /\ trace' = <<"rendering">>
    /\ renders' = renders + 1
    /\ UNCHANGED <<begin, end, height, dpr, force_debug, debug_assertions>>
    /\ UNCHANGED <<overflow_checks, measures, searchVars, windowVars, foldVars, coordVars>>
    /\ UNCHANGED <<lodVars, segVars, colorVars, viewVars, probeVars>>

\* self.render_scales(..)
RenderScales ==
    /\ pc = "scales"
    /\ LET pass == render_scales(width, begin, end)
       IN  /\ ctx' = ctx \o pass[1]
           /\ trace' = trace \o pass[2]
    /\ pc' = "measures"
    /\ UNCHANGED <<ctx_scale, ctx_stack, begin, end, height, dpr, force_debug,
                   debug_assertions, renders>>
    /\ UNCHANGED <<overflow_checks, measures, searchVars, windowVars, foldVars, coordVars>>
    /\ UNCHANGED <<lodVars, segVars, colorVars, viewVars, probeVars>>

\* self.render_measures(..): it panics in get_max_measure_value's loop for
\* the first series when `index - 1` is overflow-checked
RenderMeasures ==
    /\ pc = "measures"
    /\ IF TimesOverflow
       THEN /\ ctx' = ctx
            /\ trace' = trace \o <<"rendering measures", "nanoseconds conversion error">>
            /\ pc' = "dots"
       ELSE LET p == FirstLoopPanic(measures_data, iter_order)
            IN  IF p # 0
                THEN /\ ctx' = ctx \o MeasuresCalls(measures_data, iter_order, p - 1,
                                                    begin, end)
                                   \o <<<<"begin_path">>,
                                        <<"set_stroke_style", get_color(p - 1)>>>>
                     /\ trace' = Append(trace, "rendering measures")
                     /\ pc' = "panic"
                ELSE /\ ctx' = ctx \o MeasuresCalls(measures_data, iter_order,
                                                    Len(iter_order), begin, end)
                                   \o <<<<"set_font">>, <<"set_stroke_style", "white">>>>
                     /\ trace' = Append(trace, "rendering measures")
                     /\ pc' = "dots"
    /\ UNCHANGED <<ctx_scale, ctx_stack, begin, end, height, dpr, force_debug,
                   debug_assertions, renders>>
    /\ UNCHANGED <<overflow_checks, measures, searchVars, windowVars, foldVars, coordVars>>
    /\ UNCHANGED <<lodVars, segVars, colorVars, viewVars, probeVars>>

\* self.render_dots(..)
RenderDots ==
    /\ pc = "dots"
    /\ IF TimesOverflow
       THEN /\ ctx' = ctx
            /\ trace' = trace \o <<"rendering dots", "nanoseconds conversion error">>
            /\ pc' = IF force_debug \/ debug_assertions THEN "stats" ELSE "restore"
       ELSE LET mouse_time == x_to_time(FromInt(x), begin, end, FromInt(width))
                p == FirstSearchPanic(measures_data, iter_order, mouse_time)
            IN  /\ trace' = Append(trace, "rendering dots")
                /\ IF p # 0
                   THEN /\ ctx' = ctx \o DotsCalls(measures_data, iter_order, p - 1,
                                                   mouse_time)
                        /\ pc' = "panic"
                   ELSE /\ ctx' = ctx \o DotsCalls(measures_data, iter_order,
                                                   Len(iter_order), mouse_time)
                        /\ pc' = IF force_debug \/ debug_assertions
                                 THEN "stats"
                                 ELSE "restore"
    /\ UNCHANGED <<ctx_scale, ctx_stack, begin, end, height, dpr, force_debug,
                   debug_assertions, renders>>
    /\ UNCHANGED <<overflow_checks, measures, searchVars, windowVars, foldVars, coordVars>>
    /\ UNCHANGED <<lodVars, segVars, colorVars, viewVars, probeVars>>

\* if self.force_debug || cfg!(debug_assertions) { self.render_stats(..) }
RenderStats ==
    /\ pc = "stats"
    /\ IF TimesOverflow
       THEN /\ ctx' = ctx
            /\ trace' = trace \o <<"rendering stats", "nanoseconds conversion error">>
            /\ pc' = "restore"
       ELSE /\ trace' = Append(trace, "rendering stats")
            /\ IF FirstLoopPanic(measures_data, iter_order) # 0
               THEN /\ ctx' = ctx
                    /\ pc' = "panic"
               ELSE /\ ctx' = ctx \o StatsCalls(measures_data, iter_order, begin, end)
                    /\ pc' = "restore"
    /\ UNCHANGED <<ctx_scale, ctx_stack, begin, end, height, dpr, force_debug,
                   debug_assertions, renders>>
    /\ UNCHANGED <<overflow_checks, measures, searchVars, windowVars, foldVars, coordVars>>
    /\ UNCHANGED <<lodVars, segVars, colorVars, viewVars, probeVars>>

\* self.ctx.restore(): pops the drawing state saved last
RenderRestore ==
    /\ pc = "restore"
    /\ ctx' = Append(ctx, <<"restore">>)
    /\ IF ctx_stack = <<>>
       THEN UNCHANGED <<ctx_scale, ctx_stack>>
       ELSE /\ ctx_scale' = ctx_stack[Len(ctx_stack)]
            /\ ctx_stack' = SubSeq(ctx_stack, 1, Len(ctx_stack) - 1)
    /\ pc' = "render_done"
    /\ UNCHANGED <<begin, end, height, dpr, force_debug, debug_assertions, renders, trace>>
    /\ UNCHANGED <<overflow_checks, measures, searchVars, windowVars, foldVars, coordVars>>
    /\ UNCHANGED <<lodVars, segVars, colorVars, viewVars, probeVars>>

\* the effect of create_measures runs again and calls render on the same canvas
RenderAgain ==
    /\ pc = "render_done"
    /\ renders < MaxRenders
    /\ pc' = "render"
    /\ UNCHANGED <<overflow_checks, measures, searchVars, windowVars, foldVars, coordVars>>
    /\ UNCHANGED chartVars

\* the samples (1, 1.0), (3, 2.0) of "cpu" and (2, 2.0) of "mem", folded
CpuData == entry_upsert(entry_upsert(EmptyMap, "cpu", 1, 1, "ms"), "cpu", 3, 2, "ms")

\* the samples (1, 1.0), (5, 1.0), (6, 2.0) of "cpu", folded: the largest value
\* lies two samples after the first
SlackData ==
    entry_upsert(entry_upsert(entry_upsert(EmptyMap, "cpu", 1, 1, "ms"),
                              "cpu", 5, 1, "ms"),
                 "cpu", 6, 2, "ms")

RenderDatas == {EmptyMap, CpuData, entry_upsert(CpuData, "mem", 2, 2, "ms"), SlackData}

\* sizes: negative, zero, below f64::EPSILON, f64::EPSILON, a pixel, two ticks
RenderWidths == {0 - Px, 0, 1, EPSILON, Px, 2 * TickSpacing * Px}

RenderHeights == {0 - Px, 0, 1, Px}

\* a freshly created canvas (try_new, then with_force_debug or not) and the
\* arguments of a render call, with begin < end
InitRender ==
    /\ pc = "render"
    /\ overflow_checks \in BOOLEAN
    /\ debug_assertions \in BOOLEAN
    /\ force_debug \in BOOLEAN
    /\ measures = <<>>
    /\ measures_data \in RenderDatas
    /\ iter_order \in Orders(DOMAIN measures_data)
    /\ rows = <<>>
    /\ row_i = 0
    /\ width \in RenderWidths
    /\ height \in RenderHeights
    /\ x \in {0, Max(width, 0)}
    /\ begin \in {(0 - NanosMax) - 2, 0 - NanosMax, 0, 2, 3}
    /\ end \in {4, NanosMax, NanosMax + 1}
    /\ dpr \in {1, 2}
    /\ time_out = None
    /\ x_back = None
    /\ ctx = <<>>
    /\ trace = <<>>
    /\ ctx_scale = 1
    /\ ctx_stack = <<>>
    /\ renders = 0
    /\ IdleSearch
    /\ IdleWindow
    /\ IdleLod
    /\ IdleSeg
    /\ IdleColor
    /\ IdleView
    /\ IdleProbe

NextRender ==
    \/ RenderEnter
    \/ RenderScales
    \/ RenderMeasures
    \/ RenderDots
    \/ RenderStats
    \/ RenderRestore
    \/ RenderAgain

SpecRender == InitRender /\ [][NextRender]_vars

----------------------------------------------------------------------------
(* components.rs: handle_mousemove, handle_wheel, mousedown, mouseup *)

(* view_begin and view_end are the `begin` and `end` signals, DateTime<Utc>   *)
(* values as offsets in nanoseconds; `duration` is the derived signal         *)
(* end - begin. canvas_width counts pixels; it is 0 while the canvas is       *)
(* hidden (class:hidden while loading), and the handlers sit on the parent    *)
(* element. `x` is the mouse_x signal (mouse_y is set likewise and not read). *)
(* A handler that panics leaves the signals as they were and counts a fault;  *)
(* later events are still delivered. Times and durations stay within the      *)
(* range of chrono's DateTime and Duration, whose arithmetic is exact there.  *)

\* `f as i32` for f = canvas_width / f64::from(movement_x): the quotient
\* truncated toward zero; +inf (movement_x = 0) saturates to i32::MAX and
\* NaN (0.0 / 0.0) gives 0
FactorAsI32(w, dx) ==
    IF dx = 0
    THEN IF w = 0 THEN 0 ELSE I32Max
    ELSE TruncDiv(w, dx)

\* ((rev_factor * f64::from(evt.x())) * 100.0) as i32, rev_factor = 1.0 / width
XDelta(w, ex) ==
    IF w = 0
    THEN IF ex = 0 THEN 0 ELSE I32Max
    ELSE Trunc(FMul(FMul(FDiv(FromInt(1), FromInt(w)), FromInt(ex)), FromInt(100)))

\* the unit of a wheel step taken as a tenth of the duration
WheelUnitTenth(duration) == TruncDiv(duration, 10)

\* duration.get() / 1000
WheelUnit(duration) == TruncDiv(duration, 1000)

\* on:mousedown=move |_| set_dragging.set(true)
MouseDown ==
    /\ pc = "view"
    /\ events < MaxEvents
    /\ is_dragging' = TRUE
    /\ events' = events + 1
    /\ moved' = <<"mousedown", 0, view_begin, view_end>>
    /\ UNCHANGED <<view_begin, view_end, canvas_width, faults>>
    /\ UNCHANGED <<pc, overflow_checks, measures, searchVars, windowVars, foldVars, coordVars>>
    /\ UNCHANGED <<lodVars, segVars, colorVars, renderVars, probeVars>>

\* on:mouseup=move |_| set_dragging.set(false)
MouseUp ==
    /\ pc = "view"
    /\ events < MaxEvents
    /\ is_dragging' = FALSE
    /\ events' = events + 1
    /\ moved' = <<"mouseup", 0, view_begin, view_end>>
    /\ UNCHANGED <<view_begin, view_end, canvas_width, faults>>
    /\ UNCHANGED <<pc, overflow_checks, measures, searchVars, windowVars, foldVars, coordVars>>
    /\ UNCHANGED <<lodVars, segVars, colorVars, renderVars, probeVars>>

\* handle_mousemove for an event with movement_x = dx at abscissa mx of the
\* canvas. `duration / 0` on a chrono Duration panics.
MouseMove ==
    /\ pc = "view"
    /\ events < MaxEvents
    /\ \E dx \in (0 - (MaxCanvasWidth + 1))..(MaxCanvasWidth + 1), mx \in {0, canvas_width} :
        /\ x' = mx
        /\ moved' = <<"mousemove", dx, view_begin, view_end>>
        /\ IF ~is_dragging
           THEN UNCHANGED <<view_begin, view_end, faults>>
           ELSE LET factor == FactorAsI32(canvas_width, dx)
                IN  IF factor = 0
                    THEN /\ faults' = faults + 1
                         /\ UNCHANGED <<view_begin, view_end>>
                    ELSE LET delta == TruncDiv(view_end - view_begin, factor)
                         IN  /\ view_begin' = view_begin - delta
                             /\ view_end' = view_end - delta
                             /\ faults' = faults
    /\ events' = events + 1
    /\ UNCHANGED <<is_dragging, canvas_width>>
    /\ UNCHANGED <<pc, overflow_checks, measures, searchVars, windowVars, foldVars>>
    /\ UNCHANGED <<width, time_out, x_back>>
    /\ UNCHANGED <<lodVars, segVars, colorVars, renderVars, probeVars>>

\* handle_wheel for an event with delta_y < 0 (up) or not, at client abscissa ex
Wheel ==
    /\ pc = "view"
    /\ events < MaxEvents
    /\ \E up \in BOOLEAN, ex \in 0..(MaxCanvasWidth + 1) :
        LET unit == WheelUnit(view_end - view_begin)
            duration == IF up THEN 0 - unit ELSE unit
            x_delta == XDelta(canvas_width, ex)
        IN  /\ view_begin' = view_begin - duration * x_delta
            /\ view_end' = view_end + duration * (100 - x_delta)
            /\ moved' = <<"wheel", x_delta, view_begin, view_end>>
    /\ events' = events + 1
    /\ UNCHANGED <<is_dragging, canvas_width, faults>>
    /\ UNCHANGED <<pc, overflow_checks, measures, searchVars, windowVars, foldVars, coordVars>>
    /\ UNCHANGED <<lodVars, segVars, colorVars, renderVars, probeVars>>

\* create_measures: begin < end, nothing dragged yet; the canvas is hidden
\* (width 0) or laid out
InitView ==
    /\ pc = "view"
    /\ overflow_checks = FALSE    \* the handlers have no overflow-checked arithmetic
    /\ measures = <<>>
    /\ view_begin = 0
    /\ view_end \in {1000, 2500}
    /\ is_dragging = FALSE
    /\ canvas_width \in 0..MaxCanvasWidth
    /\ events = 0
    /\ moved = <<>>
    /\ faults = 0
    /\ IdleSearch
    /\ IdleWindow
    /\ IdleFold
    /\ IdleCoord
    /\ IdleLod
    /\ IdleSeg
    /\ IdleColor
    /\ IdleRender
    /\ IdleProbe

NextView ==
    \/ MouseDown
    \/ MouseUp
    \/ MouseMove
    \/ Wheel

SpecView == InitView /\ [][NextView]_vars

----------------------------------------------------------------------------
(* Claims about find_closest_measure and binary_search_by_with_index *)

Range(s) == {s[k] : k \in 1..Len(s)}

\* the 0-based indices i >= 1 with samples[i-1].time < T < samples[i].time
Crossings ==
    {i \in 1..(Len(measures) - 1) :
        /\ Time(measures[i]) < mouse_x_time
        /\ mouse_x_time < Time(measures[i + 1])}

\* C1 (as claimed): find_closest_measure returns none exactly when the
\* sample sequence is empty; on a non-empty sorted sequence it returns an
\* element of the sequence for every query time.
C1_NoneOnlyWhenEmpty ==
    pc = "done" =>
        /\ (found = None) <=> (measures = <<>>)
        /\ found # None => found[1] \in Range(measures)

\* C2: when samples[i-1].time < T < samples[i].time for an index i >= 1, the
\* search ends with Ok(i) and find_closest_measure returns samples[i]; the
\* probe never touches index 0 - 1, so this holds in every build profile.
C2_TieBreakAfterCrossing ==
    \A i \in Crossings :
        /\ pc # "panic"
        /\ pc \in {"return", "done"} => res = <<"Ok", i>>
        /\ pc = "done" => found = Some(measures[i + 1])

\* C2 witness: the scenario of the spec, T = 150 between (100,2.0) and
\* (200,3.0), has returned (200,3.0).
C2_Witness ==
    /\ pc = "done"
    /\ measures = TieBreakSamples
    /\ mouse_x_time = 150
    /\ Crossings = {2}
    /\ found = Some(<<200, 3>>)

\* ceil(log2(n)) for n >= 1
CeilLog2(n) == CHOOSE k \in 0..n : 2 ^ k >= n /\ (k = 0 \/ 2 ^ (k - 1) < n)

\* C3: the number of predicate evaluations of a finished search is a function
\* of the slice length alone: 0 for the empty slice, ceil(log2(n)) + 1
\* otherwise, whatever the timestamps and the query time.
C3_StepsDependOnLengthOnly ==
    pc \in {"return", "done", "panic"} =>
        steps = IF Len(measures) = 0 THEN 0 ELSE CeilLog2(Len(measures)) + 1

\* C3 witness: a finished search over at least three samples during which the
\* predicate answered Equal before the last comparison.
C3_Witness ==
    /\ pc = "done"
    /\ Len(measures) >= 3
    /\ steps = 3
    /\ res[1] = "Ok"
    /\ \E i \in Crossings : i < Len(measures) - 1

----------------------------------------------------------------------------
(* Claims about get_max_measure_value and the polyline of render_measures *)

\* the windowed-visibility scenario: samples at 0, 50, 150 and window (60,140)
WindowScenario ==
    /\ measures = WindowSamples
    /\ begin_ns = 60
    /\ end_ns = 140

\* C4 (as claimed): in the scenario the sample at time 50 (index 1, value 2)
\* is a point of the drawn polyline and its value is among the values
\* get_max_measure_value takes the maximum of.
C4_SampleAt50Included ==
    WindowScenario /\ pc = "done" =>
        /\ 1 \in Range(polyline)
        /\ 2 \in Range(displayed_values)

\* C4 (amended): in the scenario no sample has its own, previous or next
\* timestamp strictly inside (60,140), so the sample at time 50 is never a
\* point of the polyline nor among the collected values; when
\* get_max_measure_value returns it has collected nothing and returns the
\* set's global max 3.
C4_SampleAt50Excluded ==
    WindowScenario =>
        /\ 1 \notin Range(polyline)
        /\ 2 \notin Range(displayed_values)
        /\ pc \in {"polyline", "done"} =>
               displayed_values = <<>> /\ max_measure = Some(3)
        /\ pc = "done" => polyline = <<>>

\* C4 witness: the scenario has been rendered to the end with an empty
\* polyline and the global max as the scale.
C4_Witness ==
    /\ WindowScenario
    /\ pc = "done"
    /\ polyline = <<>>
    /\ displayed_values = <<>>
    /\ max_measure = Some(3)

\* the 1-based positions whose own, previous or next timestamp (where they
\* exist) lies strictly between begin_ns and end_ns
Qualifying ==
    {i \in 1..Len(measures) :
        \E j \in {i - 1, i, i + 1} \cap (1..Len(measures)) :
            begin_ns < Time(measures[j]) /\ Time(measures[j]) < end_ns}

\* the value C5 claims for get_max_measure_value
ClaimedMax ==
    IF Qualifying = {}
    THEN set_max
    ELSE CHOOSE v \in {Value(measures[i]) : i \in Qualifying} :
            \A i \in Qualifying : Value(measures[i]) <= v

\* C5 (as claimed): get_max_measure_value returns, for every measure set and
\* window, the maximum value over the qualifying samples, or the set's
\* global max when none qualifies.
C5_MaxOverQualifyingSamples ==
    /\ pc # "panic"
    /\ pc \in {"polyline", "done"} => max_measure = Some(ClaimedMax)

----------------------------------------------------------------------------
(* Claims about the fold of rows into MeasuresData *)

\* a row the fold keeps: its time parses and fits the nanosecond range
RowIsValid(r) ==
    /\ r.time[1] = "rfc3339"
    /\ (0 - NanosMax) - 1 <= r.time[2]
    /\ r.time[2] <= NanosMax

\* the rows consumed so far
Consumed == SubSeq(rows, 1, row_i)

\* the samples of the valid rows of `target` consumed so far, as they arrived
ArrivedSamples(target) ==
    LET kept == SelectSeq(Consumed, LAMBDA r : RowIsValid(r) /\ r.target = target)
    IN  [k \in 1..Len(kept) |-> <<kept[k].time[2], kept[k].value>>]

SortedByTime(ms) ==
    \A k \in 1..(Len(ms) - 1) : Time(ms[k]) <= Time(ms[k + 1])

\* C6: after any number of folded rows, in any order and for any mix of
\* targets, every MeasureSet has min <= v <= max for each of its values,
\* start <= t <= end for each of its timestamps, and min, max, start and end
\* are each attained by one of its samples.
C6_AggregationInvariant ==
    \A t \in DOMAIN measures_data :
        LET set == measures_data[t]
            idx == 1..Len(set.measures)
        IN  /\ \A k \in idx : /\ set.min <= Value(set.measures[k])
                              /\ Value(set.measures[k]) <= set.max
                              /\ set.start <= Time(set.measures[k])
                              /\ Time(set.measures[k]) <= set.end
            /\ \E k \in idx : Value(set.measures[k]) = set.min
            /\ \E k \in idx : Value(set.measures[k]) = set.max
            /\ \E k \in idx : Time(set.measures[k]) = set.start
            /\ \E k \in idx : Time(set.measures[k]) = set.end
            /\ set.measures = ArrivedSamples(t)

\* C6 witness: the fold is over, rows arrived out of time order, and a
\* target holds samples with min < max and start < end.
C6_Witness ==
    /\ pc = "fold_done"
    /\ \E t \in DOMAIN measures_data :
           /\ Len(measures_data[t].measures) >= 3
           /\ measures_data[t].min < measures_data[t].max
           /\ measures_data[t].start < measures_data[t].end
           /\ ~SortedByTime(measures_data[t].measures)

\* C7 (as claimed): whatever the order in which the rows arrive, each
\* MeasureSet's measures is non-empty and sorted ascending by timestamp.
C7_SortedWhateverTheOrder ==
    \A t \in DOMAIN measures_data :
        /\ measures_data[t].measures # <<>>
        /\ SortedByTime(measures_data[t].measures)

\* C7 (amended): each MeasureSet's measures is non-empty and holds the
\* target's valid samples in the order of arrival (the fold only appends);
\* it is sorted ascending by timestamp if the target's rows arrived in
\* ascending time order.
C7_ArrivalOrderKept ==
    /\ \A t \in DOMAIN measures_data :
           /\ measures_data[t].measures # <<>>
           /\ measures_data[t].measures = ArrivedSamples(t)
           /\ SortedByTime(ArrivedSamples(t)) =>
                  SortedByTime(measures_data[t].measures)
    /\ \A t \in Targets :
           t \in DOMAIN measures_data <=> ArrivedSamples(t) # <<>>

\* C7 witness: the fold is over and a target whose rows arrived out of time
\* order holds its samples unsorted, in arrival order.
C7_Witness ==
    /\ pc = "fold_done"
    /\ \E t \in DOMAIN measures_data :
           /\ Len(measures_data[t].measures) >= 2
           /\ ~SortedByTime(measures_data[t].measures)
           /\ measures_data[t].measures = ArrivedSamples(t)

RECURSIVE FirstSeen(_)
\* the targets of a sequence of rows in the order of their first valid row
FirstSeen(rs) ==
    IF rs = <<>>
    THEN <<>>
    ELSE LET before == FirstSeen(SubSeq(rs, 1, Len(rs) - 1))
             last == rs[Len(rs)]
         IN  IF RowIsValid(last) /\ last.target \notin Range(before)
             THEN Append(before, last.target)
             ELSE before

\* C8 (as claimed): the order in which the targets of the MeasuresData are
\* enumerated (series index of render_measures and render_dots, legend,
\* tooltip list) is the order in which the targets first appeared in the rows.
C8_SeriesOrderIsFirstSeen ==
    /\ iter_order = FirstSeen(Consumed)
    /\ \A k \in 1..Len(measures_targets) :
           measures_targets[k][1] = FirstSeen(Consumed)[k]

RECURSIVE FoldValid(_)
\* the fold of a sequence of valid rows: every row is inserted
FoldValid(rs) ==
    IF rs = <<>>
    THEN EmptyMap
    ELSE LET last == rs[Len(rs)]
         IN  entry_upsert(FoldValid(SubSeq(rs, 1, Len(rs) - 1)),
                          last.target, last.time[2], last.value, last.unit)

\* C9: a row whose timestamp does not parse or does not fit the nanosecond
\* range leaves the MeasuresData built so far unchanged and the fold goes on:
\* after every row, and at the end, the map equals the fold of the consumed
\* rows with the invalid ones removed.
C9_InvalidRowsDropped ==
    /\ measures_data = FoldValid(SelectSeq(Consumed, RowIsValid))
    /\ pc = "fold_done" => row_i = Len(rows)

\* C9 witness: the fold is over; an unparseable row and an out-of-range row
\* were consumed, each followed by a valid row that was folded.
C9_Witness ==
    /\ pc = "fold_done"
    /\ Len(rows) = 3
    /\ rows[1].time = <<"garbage">>
    /\ RowIsValid(rows[2])
    /\ rows[3].time = <<"rfc3339", NanosMax + 1>>
    /\ DOMAIN measures_data = {rows[2].target}
    /\ measures_data[rows[2].target].measures =
           <<<<rows[2].time[2], rows[2].value>>>>

----------------------------------------------------------------------------
(* Claims about time_to_x and x_to_time *)

Abs(k) == IF k < 0 THEN 0 - k ELSE k

\* |a - k| * d < w for a float a and integers k, d, w, in exact arithmetic
AbsDiffTimesLess(a, k, d, w) ==
    LET s == IF a[2] < 0 THEN 0 - a[2] ELSE 0
    IN  Abs(a[1] * (2 ^ (a[2] + s)) - k * (2 ^ s)) * d < w * (2 ^ s)

\* C10 (as claimed): for end_ns > begin_ns, width > 0 and x in [0, width],
\* time_to_x(x_to_time(x)) differs from x by less than width / (end_ns -
\* begin_ns), x_to_time maps 0 to begin_ns and width to end_ns.
C10_RoundTrip ==
    pc = "coord_done" =>
        /\ AbsDiffTimesLess(x_back[1], x, end_ns - begin_ns, width)
        /\ x = 0 => time_out = Some(begin_ns)
        /\ x = width => time_out = Some(end_ns)

----------------------------------------------------------------------------
(* Claims about compute_lod *)

\* C11: for any two durations d1 < d2, zero and negative ones included,
\* compute_lod(d1) <= compute_lod(d2), and compute_lod is never negative.
C11_MonotonicLod ==
    pc = "lod_done" =>
        /\ lod_a[1] <= lod_b[1]
        /\ lod_a[1] >= 0
        /\ lod_b[1] >= 0

\* a negative duration and a duration of 10^4 ms, whose levels of detail differ
C11_Witness ==
    /\ pc = "lod_done"
    /\ duration_a < 0
    /\ duration_b = 10000 * TicksPerMs
    /\ lod_a = Some(0)
    /\ lod_b = Some(2)

\* C12 (as claimed): compute_lod is 0 for every duration of at most 100 s
\* (100 000 ms).
C12_LodZeroUpTo100s ==
    pc = "lod_done" =>
        /\ duration_a <= 100000 * TicksPerMs => lod_a = Some(0)
        /\ duration_b <= 100000 * TicksPerMs => lod_b = Some(0)

\* C12 (amended): compute_lod is 0 exactly for the durations below 1 s
\* (1 000 ms), and it is 3 for a duration of 100 s.
C12_LodZeroBelowOneSecond ==
    pc = "lod_done" =>
        /\ lod_a = Some(0) <=> duration_a < 1000 * TicksPerMs
        /\ lod_b = Some(0) <=> duration_b < 1000 * TicksPerMs
        /\ duration_b = 100000 * TicksPerMs => lod_b = Some(3)

\* 999 ms and a fraction against 100 s
C12_Witness ==
    /\ pc = "lod_done"
    /\ duration_a = 999 * TicksPerMs + (TicksPerMs - 1)
    /\ duration_b = 100000 * TicksPerMs
    /\ lod_a = Some(0)
    /\ lod_b = Some(3)

----------------------------------------------------------------------------
(* Claims about compute_segment_index *)

\* the segment duration of a lod, 10^(lod + 2) ms, fits an i64 in ticks
SegmentDurationFits(lod) ==
    LET p == checked_pow10(lod + 2)
    IN  p # None /\ p[1] * TicksPerMs <= I64Max

----------------------------------------------------------------------------
(* Claims about get_color *)

\* C14: get_color(i) = get_color(i mod 5): two series get the same colour
\* exactly when their indices are equal modulo 5, so that index 5 reuses the
\* colour of index 0 and the colours of the indices 0..4 are pairwise distinct.
C14_ColourCycling ==
    pc = "color_done" =>
        /\ (color[1] = color[2]) <=> (color_index[1] % 5 = color_index[2] % 5)
        /\ color_index = <<5, 0>> => color = <<"#ff00c1", "#ff00c1">>

\* the 6th series against the 1st
C14_Witness ==
    /\ pc = "color_done"
    /\ color_index = <<5, 0>>
    /\ color[1] = color[2]

----------------------------------------------------------------------------
(* Claims about MeasuresCanvas::render *)

\* the number of calls of a method on the context in the current render call
CountCalls(name) == Cardinality({k \in 1..Len(ctx) : ctx[k][1] = name})

\* the sub-passes entered by the current render call, in order
PassesEntered ==
    SelectSeq(trace, LAMBDA ev : ev \in {"rendering scales", "rendering measures",
                                         "rendering dots", "rendering stats"})

\* the calls render makes itself before the sub-passes
Preamble(d) ==
    <<<<"save">>, <<"scale", d>>, <<"set_font">>, <<"set_fill_style", "#13171f">>,
      <<"fill_rect">>, <<"set_fill_style", "white">>>>

\* C15: when width or height is negative, zero or below f64::EPSILON, render
\* makes no call on the drawing context and enters none of the four sub-passes.
C15_RenderGuard ==
    (width < EPSILON \/ height < EPSILON) =>
        /\ pc \in {"render", "render_done"}
        /\ ctx = <<>>
        /\ PassesEntered = <<>>
        /\ ctx_scale = 1
        /\ ctx_stack = <<>>

\* two render calls with a width below f64::EPSILON and a height of one pixel
C15_Witness ==
    /\ pc = "render_done"
    /\ renders = 2
    /\ width = 1
    /\ height = Px
    /\ trace = <<"rendering">>
    /\ ctx = <<>>

\* C16: every render call that passes the size guard runs save, scale, the
\* background fill, the scale, series and crosshair passes, the overlay pass
\* (only if force_debug or a non-optimized build) and restore, in that order,
\* with save and restore called once each, so that the scale of the context
\* is back to what it was after every call.
C16_RenderOrder ==
    ~(width < EPSILON \/ height < EPSILON) =>
        /\ pc # "panic"
        /\ pc = "render_done" =>
               /\ SubSeq(ctx, 1, 6) = Preamble(dpr)
               /\ ctx[Len(ctx)] = <<"restore">>
               /\ CountCalls("save") = 1
               /\ CountCalls("restore") = 1
               /\ PassesEntered =
                      <<"rendering scales", "rendering measures", "rendering dots">>
                      \o (IF force_debug \/ debug_assertions
                          THEN <<"rendering stats">>
                          ELSE <<>>)
               /\ ctx_scale = 1
               /\ ctx_stack = <<>>

\* the ticks drawn and the ticks skipped by the scale pass
TicksDrawn ==
    Cardinality({k \in 1..Len(ctx) : ctx[k][1] = "fill_text" /\ ctx[k][2] = "tick"})

TicksSkipped ==
    Len(SelectSeq(trace, LAMBDA ev : ev = "conversion nanoseconds overflow"))

\* C17: when begin or end has no i64 nanoseconds, every sub-pass logs the
\* error and returns without drawing, the rest of render runs (background
\* filled, context restored) and render returns; when both have, a tick whose
\* time has none is the only thing skipped: the others are drawn.
C17_OverflowNonFatal ==
    ~(width < EPSILON \/ height < EPSILON) =>
        /\ TimesOverflow => pc # "panic"
        /\ (TimesOverflow /\ pc = "render_done") =>
               /\ ctx = Append(Preamble(dpr), <<"restore">>)
               /\ PassesEntered =
                      <<"rendering scales", "rendering measures", "rendering dots">>
                      \o (IF force_debug \/ debug_assertions
                          THEN <<"rendering stats">>
                          ELSE <<>>)
               /\ Len(trace) = 1 + 2 * Len(PassesEntered)
               /\ ctx_scale = 1
               /\ ctx_stack = <<>>
        /\ (~TimesOverflow /\ pc \in {"measures", "dots", "stats", "restore", "render_done"}
            /\ "date time duration trunc error" \notin {trace[k] : k \in 1..Len(trace)}) =>
               TicksDrawn + TicksSkipped = Scales(width)

\* a render with data, overflow checks and a begin below the i64 range
C17_Witness ==
    /\ pc = "render_done"
    /\ timestamp_nanos_opt(begin) = None
    /\ timestamp_nanos_opt(end) # None
    /\ overflow_checks
    /\ force_debug
    /\ Len(iter_order) = 2
    /\ width = 2 * TickSpacing * Px
    /\ ctx = Append(Preamble(dpr), <<"restore">>)
    /\ trace[3] = "conversion nanoseconds overflow"

----------------------------------------------------------------------------
(* Claims about the pan and zoom handlers *)

\* the last event was a mousemove handled while dragging
Panned == moved # <<>> /\ moved[1] = "mousemove" /\ is_dragging

\* C18: a mousemove with movement dx while dragging shifts begin and end by
\* dx * (duration / width), rounded to a whole nanosecond, towards earlier
\* times for dx > 0; with dx = 0 it leaves them unchanged.
C18_DragPan ==
    (Panned /\ canvas_width > 0) =>
        /\ Abs((moved[3] - view_begin) * canvas_width
                - moved[2] * (moved[4] - moved[3])) < canvas_width
        /\ Abs((moved[4] - view_end) * canvas_width
                - moved[2] * (moved[4] - moved[3])) < canvas_width

\* C19: begin < end after every sequence of mousedown, mouseup, mousemove and
\* wheel events; a pan leaves end - begin unchanged, a mousemove while not
\* dragging leaves begin and end unchanged, and a wheel event changes
\* end - begin by exactly 100 * floor(duration / 1000) wherever the cursor is.
C19_ViewportValid ==
    /\ view_begin < view_end
    /\ moved # <<>> =>
        /\ moved[1] = "mousemove" =>
               view_end - view_begin = moved[4] - moved[3]
        /\ (moved[1] = "mousemove" /\ ~is_dragging) =>
               view_begin = moved[3] /\ view_end = moved[4]
        /\ moved[1] = "wheel" =>
               Abs((view_end - view_begin) - (moved[4] - moved[3]))
                   = 100 * ((moved[4] - moved[3]) \div 1000)

\* a zoom in at a cursor beyond the canvas, then a pan to later times
C19_Witness ==
    /\ events = 3
    /\ Panned
    /\ moved[2] < 0
    /\ view_begin > 0
    /\ view_end - view_begin = 2300
    /\ canvas_width = 2

\* C20: handling a mousemove while dragging never faults, whatever dx and the
\* canvas width: not for dx = 0 and not for |dx| > width.
C20_MouseMoveNeverFaults == faults = 0

----------------------------------------------------------------------------
(* Claims about the search's result, its indices and the predecessor lookup *)

\* the indices of the samples at or after the query time
AtOrAfter == {i \in 0..(Len(measures) - 1) : Time(measures[i + 1]) >= mouse_x_time}

\* the sample at the smallest such index, none when there is no such index
FirstAtOrAfter ==
    IF AtOrAfter = {}
    THEN None
    ELSE Some(measures[(CHOOSE i \in AtOrAfter : \A k \in AtOrAfter : i <= k) + 1])

\* C21: for every slice sorted ascending by time and every query time T,
\* find_closest_measure returns the sample at the smallest index i with
\* samples[i].time >= T, and none exactly when no sample has time >= T.
C21_FirstAtOrAfter ==
    /\ pc # "panic"
    /\ pc = "done" => found = FirstAtOrAfter

\* the visibility test of the first sample as C23 states it: its own or its
\* next timestamp strictly inside the window
FirstSampleVisible ==
    \/ InWindow(Time(measures[1]), begin_ns, end_ns)
    \/ Len(measures) > 1 /\ InWindow(Time(measures[2]), begin_ns, end_ns)

\* C23: at index 0 the predecessor lookup `index - 1` yields "no predecessor"
\* and never faults: get_max_measure_value and render_measures run to their
\* end, and the first sample is drawn exactly when its own or its next
\* timestamp is strictly inside the window.
C23_NoPredecessorAtIndexZero ==
    /\ pc # "panic"
    /\ pc = "done" =>
           ((\E k \in 1..Len(polyline) : polyline[k] = 0) <=> FirstSampleVisible)

\* C22: with any predicate, every index passed to the predicate and to
\* get_unchecked is in [0, n), Ok(i) has i < n and Err(i) has i <= n.
C22_IndexSafety ==
    /\ pc # "undefined"
    /\ \A k \in 1..Len(probes) : 0 <= probes[k] /\ probes[k] < data_len
    /\ (res # <<>> /\ res[1] = "Ok") => (0 <= res[2] /\ res[2] < data_len)
    /\ (res # <<>> /\ res[1] = "Err") => (0 <= res[2] /\ res[2] <= data_len)

\* a slice of odd length whose predicate answered Less every time: the last
\* index is probed twice and the result is Err(n)
C22_Witness ==
    /\ pc = "bs_done"
    /\ data_len = 5
    /\ probes = <<2, 3, 4, 4>>
    /\ answers = <<"Less", "Less", "Less", "Less">>
    /\ res = <<"Err", 5>>

----------------------------------------------------------------------------
(* Claims about the crosshair dot and the ticks of a render call *)

\* the colour set by the last call `style` before call k of the context
StyleAt(style, k) ==
    LET before == {j \in 1..(k - 1) : ctx[j][1] = style}
    IN  IF before = {}
        THEN "none"
        ELSE ctx[CHOOSE j \in before : \A i \in before : i <= j][2]

\* call k plots a sample of a series' polyline
IsSampleLine(k) == ctx[k][1] = "line_to" /\ Len(ctx[k]) = 4

\* call k draws a crosshair dot
IsDot(k) == ctx[k][1] = "arc"

\* C24: the dot of a series lies on the series' polyline: when the sample the
\* dot is drawn for was also plotted by render_measures in the same render
\* call, both were placed with the same value scale (and so at the same y;
\* both x come from time_to_x of the same time).
C24_DotOnPolyline ==
    \A a \in 1..Len(ctx) : \A l \in 1..Len(ctx) :
        (/\ IsDot(a)
         /\ IsSampleLine(l)
         /\ StyleAt("set_fill_style", a) = StyleAt("set_stroke_style", l)
         /\ ctx[a][2] = ctx[l][2]
         /\ ctx[a][3] = ctx[l][3])
        => ctx[a][4] = ctx[l][4]

\* the times of the ticks drawn, in the order of their labels
TickTimes == SelectSeq(ctx, LAMBDA c : c[1] = "fill_text" /\ Len(c) = 3 /\ c[2] = "tick")

\* the scale pass of the current render call has run
ScalesRan == pc \notin {"render", "scales"} /\ ~SizeGuard(width, height)

\* max(1, floor(width / 204)), the width counted in pixels
ClaimedTickCount == Max(1, width \div (TickSpacing * Px))

\* duration / tickCount
ClaimedInterval == (end - begin) \div ClaimedTickCount

\* the ticks C25 states, for an interval of at least one nanosecond
TicksAsClaimed ==
    LET aligned == begin - (begin % ClaimedInterval)
    IN  /\ Len(TickTimes) = ClaimedTickCount
        /\ \A k \in 1..Len(TickTimes) :
               /\ TickTimes[k][3] = aligned + k * ClaimedInterval
               /\ begin < TickTimes[k][3]
               /\ TickTimes[k][3] <= end

\* C25 (as claimed): for begin < end and width > 0 the scale pass draws exactly
\* max(1, floor(width / 204)) ticks, interval = duration / tickCount apart, the
\* first one interval after the interval-aligned boundary of begin, each at a
\* time t with begin < t <= end.
C25_TicksWhenBeginBeforeEnd ==
    (ScalesRan /\ begin < end /\ width > 0) =>
        /\ ClaimedInterval > 0
        /\ TicksAsClaimed

\* C25 (amended): the same, when begin and end have i64 nanoseconds and the
\* interval is at least one nanosecond and has i64 nanoseconds itself.
C25_TicksWhenIntervalFits ==
    (/\ ScalesRan
     /\ begin < end
     /\ width > 0
     /\ timestamp_nanos_opt(begin) # None
     /\ timestamp_nanos_opt(end) # None
     /\ ClaimedInterval >= 1
     /\ ClaimedInterval <= NanosMax)
    => TicksAsClaimed

\* two ticks for a begin that is not a multiple of the interval
C25_Witness ==
    /\ pc = "render_done"
    /\ begin = 0 - NanosMax
    /\ end = 4
    /\ ClaimedTickCount = 2
    /\ Len(TickTimes) = 2
    /\ TickTimes[1][3] = begin + 1
    /\ TickTimes[2][3] - TickTimes[1][3] = ClaimedInterval
    /\ begin % ClaimedInterval # 0

=============================================================================
